---- MODULE Spec2Model ----
(***************************************************************************)
(* Model of bevy_lorenz_system: the shared trail buffer, the trail heads   *)
(* (particles), the live-tunable Configuration resource and the systems    *)
(* that touch them (setup, update_position, apply_new_lifetime,            *)
(* apply_physics_refresh_rate, the Clear / Start buttons of control_ui).   *)
(*                                                                         *)
(* Representation of the f32 quantities:                                   *)
(*   - times and lifetimes are integers in hundredths of a second, so      *)
(*     trail_lifetime / 10. (seconds) is trail_lifetime * 10 and the       *)
(*     placeholder's 0.01 is 1;                                            *)
(*   - coordinates are fixed-point integers, Scale units per 1.0, and      *)
(*     products and quotients round down to a unit;                        *)
(*   - hues are degrees.                                                   *)
(***************************************************************************)
EXTENDS Integers, Sequences, FiniteSets, TLC

VARIABLES
    config,      \* the Configuration resource
    cfgChanged,  \* Configuration mutated since the run condition last looked
    fixed_hz,    \* Time<Fixed> timestep, in Hz
    time,        \* Time<Virtual>::elapsed_secs of the current frame
    segments,    \* Trails.segments, head first
    heads,       \* the TrailHead entities in query order
    evicted,     \* what the last update_position drained from the buffer
    fixedLeft,   \* FixedUpdate runs still due in the current frame
    pending,     \* Update systems that have not run yet in the current frame
    cond,        \* this frame's result of the is_changed run condition
    edits,       \* fields the inspector has edited so far
    uiEdited,    \* an inspector write: "pending" until the run condition
                 \* looks, "seen" in the frame whose condition saw it
    last         \* the system that ran last

vars == <<config, cfgChanged, fixed_hz, time, segments, heads, evicted,
          fixedLeft, pending, cond, edits, uiEdited, last>>

(* ------------------------------ bounds --------------------------------- *)

MaxLifetime == 2        \* the inspector sets trail_lifetime in 0..MaxLifetime
MaxTrails == 2          \* the inspector sets num_of_trails in 0..MaxTrails
MaxTicksPerFrame == 2   \* FixedUpdate runs per frame
MaxFrames == 3          \* frames after the first one
MaxEdits == 2           \* fields edited in the inspector over a run
MaxSegs == 13           \* a frame runs no FixedUpdate that could outgrow this
MaxEvictLen == 4        \* buffer lengths of the eviction-only specification
MaxEvictSec == 3        \* birth times (whole seconds) of that specification

FrameDelta == 10        \* duration of a frame, hundredths of a second

(* -------------------------- program constants -------------------------- *)

NUM_OF_TRAILS == 10
INITIAL_DISTANCE == 100
TRAIL_LIFETIME == 100
DELTA_T == 50
PHYSICS_REFRESH_RATE == 120
SIGMA == 10
RHO == 28
BETA_NUM == 8
BETA_DEN == 3
DT_DIVISOR == 10000
DEFAULT_LIFETIME == 1
Scale == 10000

Vec3Zero == <<0, 0, 0>>

ConfigurationDefault ==
    [ physics_refresh_rate |-> PHYSICS_REFRESH_RATE,
      trail_lifetime       |-> TRAIL_LIFETIME,
      num_of_trails        |-> NUM_OF_TRAILS,
      initial_distance     |-> INITIAL_DISTANCE,
      delta_t              |-> DELTA_T,
      trail_segment_count  |-> 0 ]

\* TrailSegment::default(): everything zeroed but the lifetime
TrailSegmentDefault ==
    [ position   |-> Vec3Zero,
      rotation   |-> "zero",
      color      |-> 0,
      birth_time |-> 0,
      lifetime   |-> DEFAULT_LIFETIME ]

\* config.trail_lifetime as f32 / 10.
ConfiguredLifetime(c) == c.trail_lifetime * 10

(* --------------------------- spawn_trail_heads ------------------------- *)

\* Hsla::hsl(ratio * 360., ..) with ratio = i / NUM_OF_TRAILS
HeadHue(i) == (i * 360) \div NUM_OF_TRAILS

\* Vec3::splat(i as f32 * config.initial_distance)
InitialPos(i, c) == LET p == i * c.initial_distance IN <<p, p, p>>

SpawnTrailHeads(c) ==
    [ i \in 1..c.num_of_trails |->
        [ translation |-> InitialPos(i, c), color |-> HeadHue(i) ] ]

(* ---------------------------- update_position -------------------------- *)

\* a scan that keeps a segment whose age equals the lifetime
FirstLiveInclusive(segs, now, lifetime) ==
    LET live == { i \in 1..Len(segs) : now - segs[i].birth_time <= lifetime }
    IN  IF live = {} THEN 0
        ELSE CHOOSE i \in live : \A j \in live : i <= j

\* iter().position(|s| now - s.birth_time < lifetime); 0 stands for None
FirstLive(segs, now, lifetime) ==
    LET live == { i \in 1..Len(segs) : now - segs[i].birth_time < lifetime }
    IN  IF live = {} THEN 0
        ELSE CHOOSE i \in live : \A j \in live : i <= j

\* the segments drain(..index) removes
Drained(segs, now, lifetime) ==
    LET index == FirstLive(segs, now, lifetime)
    IN  IF index = 0 THEN << >> ELSE SubSeq(segs, 1, index - 1)

\* an eviction that also drains a buffer of expired segments only
EvictExpiredAll(segs, now, lifetime) ==
    LET index == FirstLive(segs, now, lifetime)
    IN  IF index = 0 THEN << >> ELSE SubSeq(segs, index, Len(segs))

\* the buffer after "Delete old segments"
EvictExpired(segs, now, lifetime) ==
    LET index == FirstLive(segs, now, lifetime)
    IN  IF index = 0 THEN segs ELSE SubSeq(segs, index, Len(segs))

\* delta = Vec3::new(dx, dy, dz) * dt
LorenzDelta(p, c) ==
    LET x  == p[1]
        y  == p[2]
        z  == p[3]
        dx == SIGMA * (y - x)
        dy == ((x * (RHO * Scale - z)) \div Scale) - y
        dz == ((x * y) \div Scale) - ((BETA_NUM * z) \div BETA_DEN)
    IN  << (dx * c.delta_t) \div DT_DIVISOR,
           (dy * c.delta_t) \div DT_DIVISOR,
           (dz * c.delta_t) \div DT_DIVISOR >>

\* new_translation = old_translation + delta
NewTranslation(p, c) ==
    LET d == LorenzDelta(p, c) IN <<p[1] + d[1], p[2] + d[2], p[3] + d[3]>>

\* Quat::from_rotation_arc(Vec3::Y, delta.normalize()): normalizing the zero
\* vector yields NaN components
Rotation(delta) == IF delta = Vec3Zero THEN "nan" ELSE "arc"

\* a segment that records the position after the step
NewSegmentAtNewTranslation(h, now, c) ==
    [ position   |-> NewTranslation(h.translation, c),
      rotation   |-> Rotation(LorenzDelta(h.translation, c)),
      color      |-> h.color,
      birth_time |-> now,
      lifetime   |-> ConfiguredLifetime(c) ]

\* the TrailSegment pushed for one head
NewSegment(h, now, c) ==
    [ position   |-> h.translation,
      rotation   |-> Rotation(LorenzDelta(h.translation, c)),
      color      |-> h.color,
      birth_time |-> now,
      lifetime   |-> ConfiguredLifetime(c) ]

\* the heads after the loop: each transform stepped once
MovedHeads(hs, c) ==
    [ i \in 1..Len(hs) |->
        [ hs[i] EXCEPT !.translation = NewTranslation(hs[i].translation, c) ] ]

\* the buffer after the whole system: eviction, then one push per head
TickedSegments(segs, hs, now, c) ==
    EvictExpired(segs, now, ConfiguredLifetime(c))
        \o [ i \in 1..Len(hs) |-> NewSegment(hs[i], now, c) ]

UpdatePosition ==
    /\ fixedLeft > 0
    /\ evicted' = Drained(segments, time, ConfiguredLifetime(config))
    /\ segments' = TickedSegments(segments, heads, time, config)
    /\ heads' = MovedHeads(heads, config)
    /\ config' = [config EXCEPT !.trail_segment_count = Len(segments')]
    /\ cfgChanged' = TRUE
    /\ fixedLeft' = fixedLeft - 1
    /\ last' = "update_position"
    /\ UNCHANGED <<edits, uiEdited, fixed_hz, time, pending, cond>>

(* ------------------------------ control_ui ----------------------------- *)

\* a clear() that pushes the placeholder without emptying the buffer
ClearedSegmentsKeepingOld(segs) == segs \o << TrailSegmentDefault >>

\* clear(): the buffer and the heads it leaves
ClearedSegments(segs) == << TrailSegmentDefault >>

ClearedHeads(hs) == << >>

\* a Start button that calls start(world) without clear(world)
StartedHeadsWithoutClear(hs, c) == hs \o SpawnTrailHeads(c)

\* the heads after the Start button: clear(world); start(world)
StartedHeads(hs, c) == ClearedHeads(hs) \o SpawnTrailHeads(c)

Clear ==
    /\ fixedLeft = 0
    /\ "control_ui" \in pending
    /\ pending' = pending \ {"control_ui"}
    /\ segments' = ClearedSegments(segments)
    /\ heads' = ClearedHeads(heads)
    /\ last' = "clear"
    /\ UNCHANGED <<edits, uiEdited, config, cfgChanged, fixed_hz, time, evicted, fixedLeft, cond>>

Start ==
    /\ fixedLeft = 0
    /\ "control_ui" \in pending
    /\ pending' = pending \ {"control_ui"}
    /\ segments' = ClearedSegments(segments)
    /\ heads' = StartedHeads(heads, config)
    /\ last' = "start"
    /\ UNCHANGED <<edits, uiEdited, config, cfgChanged, fixed_hz, time, evicted, fixedLeft, cond>>

(* ------------------- ResourceInspectorPlugin<Configuration> ------------ *)

ConfigEdits(c) ==
    ( { [c EXCEPT !.trail_lifetime = v] : v \in 0..MaxLifetime \cup {TRAIL_LIFETIME} }
      \cup { [c EXCEPT !.num_of_trails = v] : v \in 0..MaxTrails }
      \cup { [c EXCEPT !.initial_distance = v] : v \in {0, INITIAL_DISTANCE} }
      \cup { [c EXCEPT !.delta_t = v] : v \in {0, DELTA_T} }
      \cup { [c EXCEPT !.physics_refresh_rate = v] : v \in {0, PHYSICS_REFRESH_RATE} } )
    \ {c}

EditConfig ==
    /\ fixedLeft = 0
    /\ "inspector" \in pending
    /\ edits < MaxEdits
    /\ edits' = edits + 1
    /\ pending' = pending \ {"inspector"}
    /\ \E c \in ConfigEdits(config) : config' = c
    /\ cfgChanged' = TRUE
    /\ uiEdited' = "pending"
    /\ last' = "inspector"
    /\ UNCHANGED <<fixed_hz, time, segments, heads, evicted, fixedLeft, cond>>

(* --------- (apply_new_lifetime, apply_physics_refresh_rate).run_if ----- *)

ConfigSystems == {"apply_new_lifetime", "apply_physics_refresh_rate"}

\* the run condition |config| config.is_changed(), evaluated once per frame
RunIfChanged ==
    /\ fixedLeft = 0
    /\ cond = "unevaluated"
    /\ cond' = IF cfgChanged THEN "run" ELSE "skip"
    /\ pending' = IF cfgChanged THEN pending ELSE pending \ ConfigSystems
    /\ cfgChanged' = FALSE
    /\ uiEdited' = IF uiEdited = "pending" THEN "seen" ELSE "none"
    /\ UNCHANGED <<edits, config, fixed_hz, time, segments, heads, evicted, fixedLeft, last>>

NewLifetimeApplied(segs, c) ==
    IF Len(segs) > 0 /\ segs[1].lifetime # ConfiguredLifetime(c)
    THEN [ i \in 1..Len(segs) |->
             [ segs[i] EXCEPT !.lifetime = ConfiguredLifetime(c) ] ]
    ELSE segs

ApplyNewLifetime ==
    /\ cond = "run"
    /\ "apply_new_lifetime" \in pending
    /\ pending' = pending \ {"apply_new_lifetime"}
    /\ segments' = NewLifetimeApplied(segments, config)
    /\ last' = "apply_new_lifetime"
    /\ UNCHANGED <<edits, uiEdited, config, cfgChanged, fixed_hz, time, heads, evicted, fixedLeft, cond>>

\* std::cmp::max(config.physics_refresh_rate, 1)
RefreshRateHz(c) == IF c.physics_refresh_rate > 1 THEN c.physics_refresh_rate ELSE 1

ApplyPhysicsRefreshRate ==
    /\ cond = "run"
    /\ "apply_physics_refresh_rate" \in pending
    /\ pending' = pending \ {"apply_physics_refresh_rate"}
    /\ fixed_hz' = RefreshRateHz(config)
    /\ last' = "apply_physics_refresh_rate"
    /\ UNCHANGED <<edits, uiEdited, config, cfgChanged, time, segments, heads, evicted, fixedLeft, cond>>

(* ------------------------------- the frame ----------------------------- *)

UpdateSystems == {"control_ui", "inspector"} \cup ConfigSystems

\* the next frame starts once the config systems have run or been skipped;
\* a frame in which no button is clicked or no field is edited changes nothing
BeginFrame ==
    /\ fixedLeft = 0
    /\ cond # "unevaluated"
    /\ pending \cap ConfigSystems = {}
    /\ time < MaxFrames * FrameDelta
    /\ time' = time + FrameDelta
    /\ \E n \in 0..MaxTicksPerFrame :
          /\ Len(segments) + n * Len(heads) <= MaxSegs
          /\ fixedLeft' = n
    /\ pending' = UpdateSystems
    /\ cond' = "unevaluated"
    /\ last' = "frame"
    /\ UNCHANGED <<edits, uiEdited, config, cfgChanged, fixed_hz, segments, heads, evicted>>

\* the world after Startup (setup), in the Update phase of the first frame
Init ==
    /\ config = ConfigurationDefault
    /\ cfgChanged = TRUE
    /\ fixed_hz = ConfigurationDefault.physics_refresh_rate
    /\ time = 0
    /\ segments = << TrailSegmentDefault >>
    /\ heads = SpawnTrailHeads(ConfigurationDefault)
    /\ evicted = << >>
    /\ fixedLeft = 0
    /\ pending = UpdateSystems
    /\ cond = "unevaluated"
    /\ edits = 0
    /\ uiEdited = "none"
    /\ last = "setup"

Next ==
    \/ BeginFrame
    \/ UpdatePosition
    \/ Clear
    \/ Start
    \/ EditConfig
    \/ RunIfChanged
    \/ ApplyNewLifetime
    \/ ApplyPhysicsRefreshRate

Spec == Init /\ [][Next]_vars

(* ------------------ the eviction step on its own ----------------------- *)
(* update_position with no trail head is the eviction step alone.  Its     *)
(* inputs: a chronological buffer, a clock not before the newest segment   *)
(* and a whole-second trail_lifetime.                                      *)

EvictTimes == { 100 * s : s \in 0..MaxEvictSec }

EvictClocks == { 100 * s : s \in 0..(MaxEvictSec + 1) }

EvictLifetimes == { 10 * s : s \in 0..MaxEvictSec }

Births(segs) == [ i \in 1..Len(segs) |-> segs[i].birth_time ]

Chronological(bs) == \A i \in 1..(Len(bs) - 1) : bs[i] <= bs[i + 1]

EvictBuffers ==
    { bs \in UNION { [1..n -> EvictTimes] : n \in 1..MaxEvictLen } :
        Chronological(bs) }

InitEvict ==
    /\ \E l \in EvictLifetimes :
          config = [ConfigurationDefault EXCEPT !.trail_lifetime = l]
    /\ \E bs \in EvictBuffers :
          /\ segments = [ i \in 1..Len(bs) |->
                           [TrailSegmentDefault EXCEPT !.birth_time = bs[i]] ]
          /\ time \in { t \in EvictClocks : bs[Len(bs)] <= t }
    /\ cfgChanged = FALSE
    /\ fixed_hz = ConfigurationDefault.physics_refresh_rate
    /\ heads = << >>
    /\ evicted = << >>
    /\ fixedLeft = 1
    /\ pending = UpdateSystems
    /\ cond = "unevaluated"
    /\ edits = 0
    /\ uiEdited = "none"
    /\ last = "frame"

SpecEvict == InitEvict /\ [][UpdatePosition]_vars

(* ------------------------------ properties ----------------------------- *)

Expired(seg, now, lifetime) == now - seg.birth_time >= lifetime

\* the length of the maximal run of expired segments at the head of segs
RECURSIVE HeadRun(_, _, _)
HeadRun(segs, now, lifetime) ==
    IF segs = << >> \/ ~Expired(Head(segs), now, lifetime) THEN 0
    ELSE 1 + HeadRun(Tail(segs), now, lifetime)

\* C1: in every reachable state the shared trail buffer holds at least one
\* segment, whatever the interleaving of ticks, lifetime rewrites, Clear and
\* Start and whatever the configuration (zero particles, trail_lifetime = 0).
C1_BufferNeverEmpty == Len(segments) >= 1

\* a tick with no particle, trail_lifetime = 0 and only expired segments
C1_Witness ==
    /\ last = "update_position"
    /\ heads = << >>
    /\ config.trail_lifetime = 0
    /\ \A i \in 1..Len(segments) : Expired(segments[i], time, ConfiguredLifetime(config))

\* C2: after every physics tick at clock now, every segment left in the buffer
\* has now - birth_time < trail_lifetime / 10: no expired segment survives.
C2_NoExpiredSurvivesTick ==
    last = "update_position" =>
        \A i \in 1..Len(segments) :
            time - segments[i].birth_time < ConfiguredLifetime(config)

\* C3: the eviction step removes exactly the maximal run of expired segments
\* at the head of the buffer, also when every segment is expired.
C3_EvictsMaximalHeadRun ==
    last = "update_position" =>
        LET before == evicted \o segments
            n      == HeadRun(before, time, ConfiguredLifetime(config))
        IN  /\ evicted = SubSeq(before, 1, n)
            /\ segments = SubSeq(before, n + 1, Len(before))

\* the eviction step was given birth times 0, 1, 2, 3 s at now = 3 s with a
\* lifetime of 2 s
C4_Case ==
    /\ last = "update_position"
    /\ Births(evicted \o segments) = <<0, 100, 200, 300>>
    /\ time = 300
    /\ ConfiguredLifetime(config) = 200

\* C4 as stated: on birth times 0, 1, 2, 3 with lifetime 2, eviction at now = 3
\* removes exactly the segment born at 0 and leaves those born at 1, 2, 3.
C4_RemovesOnlyBirthZero ==
    C4_Case => Births(evicted) = <<0>> /\ Births(segments) = <<100, 200, 300>>

\* C4 amended: on birth times 0, 1, 2, 3 with lifetime 2, eviction at now = 3
\* removes the segments born at 0 and 1 (ages 3 and 2, both >= the lifetime)
\* and leaves those born at 2 and 3.
C4_RemovesBirthZeroAndOne ==
    C4_Case => Births(evicted) = <<0, 100>> /\ Births(segments) = <<200, 300>>

C4_Witness ==
    C4_Case /\ Births(evicted) = <<0, 100>> /\ Births(segments) = <<200, 300>>

\* C5: every segment in the buffer has lifetime > 0 in every reachable state,
\* for every value of trail_lifetime, 0 included.
C5_LifetimePositive ==
    \A i \in 1..Len(segments) : segments[i].lifetime > 0

\* C6: whenever apply_new_lifetime has run, every segment in the buffer has
\* lifetime equal to the configured value trail_lifetime / 10.
C6_AllLifetimesRewritten ==
    last = "apply_new_lifetime" =>
        \A i \in 1..Len(segments) :
            segments[i].lifetime = ConfiguredLifetime(config)

\* C7: one physics tick with N trail heads appends exactly N segments to the
\* tail of the buffer, one per head in iteration order, each with the head's
\* position before the step, birth_time = the clock and lifetime =
\* trail_lifetime / 10; what precedes them is a tail of the old buffer; and
\* each head's position is advanced by exactly one Euler step.
C7_TickAppendsOnePerHead ==
    [][ UpdatePosition =>
          LET n    == Len(heads)
              kept == Len(segments') - n
          IN  /\ kept >= 0
              /\ kept <= Len(segments)
              /\ \A j \in 1..kept :
                    segments'[j] = segments[Len(segments) - kept + j]
              /\ \A i \in 1..n :
                    /\ segments'[kept + i].position = heads[i].translation
                    /\ segments'[kept + i].birth_time = time
                    /\ segments'[kept + i].lifetime = config.trail_lifetime * 10
              /\ Len(heads') = n
              /\ \A i \in 1..n :
                    LET p == heads[i].translation
                        d == LorenzDelta(p, config)
                    IN  heads'[i].translation = <<p[1] + d[1], p[2] + d[2], p[3] + d[3]>>
      ]_vars

\* a tick has pushed the segments of two heads, which have moved on
C7_Witness ==
    /\ last = "update_position"
    /\ Len(heads) = 2
    /\ Len(segments) >= 3
    /\ segments[Len(segments)].birth_time = time
    /\ segments[Len(segments)].position # heads[2].translation
    /\ segments[Len(segments) - 1].position # heads[1].translation

\* C8: Clear leaves the buffer holding exactly the default placeholder and no
\* particle; a second Clear changes neither.
C8_ClearResetsAndIsIdempotent ==
    last = "clear" =>
        /\ segments = << TrailSegmentDefault >>
        /\ heads = << >>
        /\ ClearedSegments(segments) = segments
        /\ ClearedHeads(heads) = heads

\* Clear after ticks have filled the buffer, with a non-zero num_of_trails
C8_Witness ==
    /\ last = "clear"
    /\ config.trail_segment_count > 1
    /\ config.num_of_trails > 0
    /\ time > 0

\* C9: right after Start the live particles are exactly num_of_trails ones,
\* the i-th at i * initial_distance on all three axes; none of an earlier
\* Start or of setup remains.
C9_StartSpawnsExactlyN ==
    last = "start" =>
        /\ Len(heads) = config.num_of_trails
        /\ \A i \in 1..Len(heads) :
              LET p == i * config.initial_distance
              IN  heads[i].translation = <<p, p, p>>

\* Start with two particles configured, after ticks moved the heads of setup
C9_Witness ==
    /\ last = "start"
    /\ config.num_of_trails = 2
    /\ config.initial_distance > 0
    /\ config.trail_segment_count > 1

\* C10: the N particles Start spawns have pairwise distinct hues evenly spaced
\* around the colour wheel: particle i has hue i * 360 / N modulo 360.
C10_HuesEvenlySpaced ==
    last = "start" =>
        LET n == Len(heads)
        IN  /\ \A i \in 1..n :
                  (heads[i].color * n) % (360 * n) = (i * 360) % (360 * n)
            /\ \A i, j \in 1..n :
                  i # j => heads[i].color % 360 # heads[j].color % 360

\* C11: after the first frame, apply_new_lifetime and
\* apply_physics_refresh_rate run in a frame only if the inspector wrote a
\* Configuration field since their run condition last looked; a physics tick,
\* which writes only trail_segment_count, does not make them run.
C11_ConfigSystemsRunOnlyOnUiChange ==
    (cond = "run" /\ time > 0) => uiEdited # "none"

\* C12: no segment whose orientation was computed by normalizing a zero delta
\* is ever in the buffer: a tick with a zero delta pushes no segment for that
\* head, or one with the identity orientation.
C12_NoSegmentFromZeroDelta ==
    \A i \in 1..Len(segments) : segments[i].rotation # "nan"

====
